---- MODULE Spec2Model ----
(***************************************************************************)
(* posts/words-clouds/eptools.py: remove_diacriticals and preprocess,      *)
(* the Latin text normaliser.                                              *)
(*                                                                         *)
(* A text is a sequence of characters.  An ASCII character is the          *)
(* one-character string holding it ("a", "&", "\n"); any other character,  *)
(* and the grave accent "U+0060", is named by its code point ("U+01F0").   *)
(* The library functions the script calls (html.unescape, str.lower,       *)
(* re.sub, str.translate, str.split, str.join, str.strip,                  *)
(* unicodedata.normalize, unicodedata.combining, cltk's                    *)
(* JVReplacer.replace) are operators that compute what the library         *)
(* computes, over the characters of CodePoints.                            *)
(***************************************************************************)
EXTENDS Naturals, Sequences, FiniteSets, TLC

(***************************************************************************)
(* Bounds.                                                                 *)
(***************************************************************************)
\* the longest text drawn from Alphabet
MaxLen == 2

\* the longest text drawn from FillAlphabet
MaxLenFill == 3

\* the longest text drawn from MarkAlphabet
MaxLenMarks == 3

\* the longest text drawn from HyphenAlphabet
MaxLenHyphen == 4

\* the most tokens of EntityTokens a text is made of
MaxTokens == 3

\* the calls the caller makes, one after the other
MaxCalls == 2

(***************************************************************************)
(* Sequence helpers.                                                       *)
(***************************************************************************)
Range(s) == {s[i] : i \in 1..Len(s)}

SeqsUpTo(S, n) == UNION {[1..k -> S] : k \in 0..n}

RECURSIVE Cat(_)
Cat(ss) == IF ss = <<>> THEN <<>> ELSE Head(ss) \o Cat(Tail(ss))

\* sep.join(parts)
RECURSIVE Join(_, _)
Join(sep, parts) ==
    IF parts = <<>> THEN <<>>
    ELSE IF Len(parts) = 1 THEN Head(parts)
    ELSE Head(parts) \o sep \o Join(sep, Tail(parts))

Drop(s, n) == SubSeq(s, n + 1, Len(s))

(***************************************************************************)
(* Character data.                                                         *)
(***************************************************************************)
UpperAscii == <<"A","B","C","D","E","F","G","H","I","J","K","L","M",
                "N","O","P","Q","R","S","T","U","V","W","X","Y","Z">>
LowerAscii == <<"a","b","c","d","e","f","g","h","i","j","k","l","m",
                "n","o","p","q","r","s","t","u","v","w","x","y","z">>

\* "0123456789" of line 68
Digits == <<"0","1","2","3","4","5","6","7","8","9">>

\* the string assigned to punctuation on line 60
PunctuationStr ==
    <<"\"","#","$","%","&","'","(",")","*","+",",","/",":",";","<","=",">",
      "@","[","\\","]","^","_","U+0060","{","|","}","~",".","?","!",
      "U+00AB","U+00BB","U+2014","U+201C","-","U+201D">>

\* the string assigned to misc on line 61
MiscStr ==
    <<"U+00A1","U+00A3","U+00A4","U+00A5","U+00A6","U+00A7","U+00A8","U+00A9",
      "U+00AF","U+00B0","U+00B1","U+00B2","U+00B3","U+00B4","U+00B5","U+00B6",
      "U+00B7","U+00B8","U+00B9","U+00BA","U+00BC","U+00BD","U+00BE","U+00BF",
      "U+00F7","U+00B7","U+2013","U+2018","U+2019","U+2020","U+2022","U+2184",
      "U+221E","U+23D1","U+3008","U+3009","U+FF08","U+FF09">>

\* the characters str.isspace() holds of: what str.split(), str.strip() and
\* the regular expression class \s treat as whitespace
Whitespace ==
    {"\t", "\n", "U+000B", "\f", "\r", "U+001C", "U+001D", "U+001E", "U+001F",
     " ", "U+0085", "U+00A0", "U+1680", "U+2000", "U+2001", "U+2002", "U+2003",
     "U+2004", "U+2005", "U+2006", "U+2007", "U+2008", "U+2009", "U+200A",
     "U+2028", "U+2029", "U+202F", "U+205F", "U+3000"}

\* Canonical decompositions (UnicodeData.txt) of the characters of CodePoints
\* that have one: the letters a i j u v with U+030C COMBINING CARON or
\* U+0323 COMBINING DOT BELOW, U+037E GREEK QUESTION MARK, whose canonical
\* form is the semicolon, and the two quad spaces.
Decomposition ==
    [c \in {"U+01CD","U+01CE","U+01CF","U+01D0","U+01D3","U+01D4","U+01F0",
            "U+1EA0","U+1EA1","U+1ECA","U+1ECB","U+1EE4","U+1EE5","U+1E7E",
            "U+1E7F","U+037E","U+2000","U+2001"} |->
       CASE c = "U+01CD" -> <<"A", "U+030C">>
         [] c = "U+01CE" -> <<"a", "U+030C">>
         [] c = "U+01CF" -> <<"I", "U+030C">>
         [] c = "U+01D0" -> <<"i", "U+030C">>
         [] c = "U+01D3" -> <<"U", "U+030C">>
         [] c = "U+01D4" -> <<"u", "U+030C">>
         [] c = "U+01F0" -> <<"j", "U+030C">>
         [] c = "U+1EA0" -> <<"A", "U+0323">>
         [] c = "U+1EA1" -> <<"a", "U+0323">>
         [] c = "U+1ECA" -> <<"I", "U+0323">>
         [] c = "U+1ECB" -> <<"i", "U+0323">>
         [] c = "U+1EE4" -> <<"U", "U+0323">>
         [] c = "U+1EE5" -> <<"u", "U+0323">>
         [] c = "U+1E7E" -> <<"V", "U+0323">>
         [] c = "U+1E7F" -> <<"v", "U+0323">>
         [] c = "U+037E" -> <<";">>
         [] c = "U+2000" -> <<"U+2002">>
         [] c = "U+2001" -> <<"U+2003">>]

\* str.lower() of the letters above (the upper-case letter's lower-case form)
LowerOfComposite ==
    [c \in {"U+01CD","U+01CF","U+01D3","U+1EA0","U+1ECA","U+1EE4","U+1E7E"} |->
       CASE c = "U+01CD" -> "U+01CE"
         [] c = "U+01CF" -> "U+01D0"
         [] c = "U+01D3" -> "U+01D4"
         [] c = "U+1EA0" -> "U+1EA1"
         [] c = "U+1ECA" -> "U+1ECB"
         [] c = "U+1EE4" -> "U+1EE5"
         [] c = "U+1E7E" -> "U+1E7F"]

\* The marks of the model: two with a non-zero canonical combining class and
\* U+20DD COMBINING ENCLOSING CIRCLE, a combining mark (category Me) of class 0.
CombiningMarks == {"U+030C", "U+0323", "U+20DD"}

\* The characters of the model: ASCII, the marks, the composites, every
\* character of the punctuation and misc strings and the whitespace
\* characters.  Every text of the model stays within them, and puts a mark
\* of non-zero class only after a, i, j, u, v or a character that is no letter:
\* for such texts the tables above are the whole of the Unicode data.
AsciiPrintable ==
    Range(UpperAscii) \cup Range(LowerAscii) \cup Range(Digits) \cup
    {" ","!","\"","#","$","%","&","'","(",")","*","+",",","-",".","/",":",";",
     "<","=",">","?","@","[","\\","]","^","_","U+0060","{","|","}","~"}

CodePoints ==
    AsciiPrintable \cup Whitespace \cup CombiningMarks \cup
    DOMAIN Decomposition \cup Range(PunctuationStr) \cup Range(MiscStr)

\* unicodedata.combining(c): the canonical combining class
combining(c) ==
    CASE c = "U+030C" -> 230
      [] c = "U+0323" -> 220
      [] OTHER -> 0

\* the primary composite of a starter and a mark, for unicodedata.normalize("NFC")
Composable(a, b) ==
    \E c \in DOMAIN Decomposition : Decomposition[c] = <<a, b>>

Composite(a, b) ==
    CHOOSE c \in DOMAIN Decomposition : Decomposition[c] = <<a, b>>

(***************************************************************************)
(* Library functions.                                                      *)
(***************************************************************************)
Min(S) == CHOOSE x \in S : \A y \in S : x <= y
Max(S) == CHOOSE x \in S : \A y \in S : x >= y

\* str.translate(str.maketrans({key: repl for key in keys}))
RECURSIVE translate(_, _, _)
translate(s, keys, repl) ==
    IF s = <<>> THEN <<>>
    ELSE (IF Head(s) \in keys THEN repl ELSE <<Head(s)>>)
         \o translate(Tail(s), keys, repl)

\* str.lower()
LowerChar(c) ==
    IF c \in Range(UpperAscii)
    THEN LowerAscii[CHOOSE i \in 1..Len(UpperAscii) : UpperAscii[i] = c]
    ELSE IF c \in DOMAIN LowerOfComposite THEN LowerOfComposite[c] ELSE c

str_lower(s) == [i \in 1..Len(s) |-> LowerChar(s[i])]

\* re.sub(a, b, s) for the one-character patterns of JVReplacer
SubChar(s, a, b) == [i \in 1..Len(s) |-> IF s[i] = a THEN b ELSE s[i]]

\* cltk.alphabet.lat.JVReplacer.replace: the patterns (j, i), (v, u), (J, I),
\* (V, U), applied in this order
JVReplacer_replace(s) ==
    SubChar(SubChar(SubChar(SubChar(s, "j", "i"), "v", "u"), "J", "I"), "V", "U")

\* html.unescape: the named character references.  The texts of the model
\* hold no "#", so no numeric reference occurs in them; Html5 holds the
\* entries of html.entities.html5 that the texts of the model can spell.
Html5 ==
    (<<"a","m","p">> :> <<"&">>) @@ (<<"a","m","p",";">> :> <<"&">>)

\* the characters that end the name of a reference: [^\t\n\f <&#;]
NameStop == {"\t", "\n", "\f", " ", "<", "&", "#", ";"}

RECURSIVE NameRun(_)
NameRun(s) ==
    IF s = <<>> \/ Head(s) \in NameStop THEN <<>>
    ELSE <<Head(s)>> \o NameRun(Tail(s))

\* html._replace_charref, s the reference without its "&"
replace_charref(s) ==
    IF s \in DOMAIN Html5 THEN Html5[s]
    ELSE LET xs == {x \in 2..(Len(s) - 1) : SubSeq(s, 1, x) \in DOMAIN Html5}
         IN  IF xs # {}
             THEN Html5[SubSeq(s, 1, Max(xs))] \o Drop(s, Max(xs))
             ELSE <<"&">> \o s

RECURSIVE unescape(_)
unescape(s) ==
    IF s = <<>> THEN <<>>
    ELSE IF Head(s) = "&"
    THEN LET all  == NameRun(Tail(s))
             run  == SubSeq(all, 1, IF Len(all) < 32 THEN Len(all) ELSE 32)
             rest == Drop(Tail(s), Len(run))
             ref  == IF rest # <<>> /\ Head(rest) = ";"
                     THEN Append(run, ";") ELSE run
         IN  IF run = <<>> THEN <<"&">> \o unescape(Tail(s))
             ELSE replace_charref(ref) \o unescape(Drop(Tail(s), Len(ref)))
    ELSE <<Head(s)>> \o unescape(Tail(s))

\* re.sub(r"[-»—]\s?\n", "", s, flags=re.MULTILINE): leftmost matches, the
\* optional \s taken when the match can still be completed
Hyphens == {"-", "U+00BB", "U+2014"}

\* the pattern with \s* in the place of \s?: the whitespace run after the
\* hyphen, up to its last newline
RECURSIVE WhitespaceRun(_)
WhitespaceRun(s) ==
    IF s = <<>> \/ Head(s) \notin Whitespace THEN <<>>
    ELSE <<Head(s)>> \o WhitespaceRun(Tail(s))

RECURSIVE unhyphenate_star(_)
unhyphenate_star(s) ==
    IF s = <<>> THEN <<>>
    ELSE LET run == WhitespaceRun(Tail(s))
             nl  == {i \in 1..Len(run) : run[i] = "\n"}
         IN  IF Head(s) \in Hyphens /\ nl # {}
             THEN unhyphenate_star(Drop(s, 1 + Max(nl)))
             ELSE <<Head(s)>> \o unhyphenate_star(Tail(s))

RECURSIVE unhyphenate_sub(_)
unhyphenate_sub(s) ==
    IF s = <<>> THEN <<>>
    ELSE IF /\ Head(s) \in Hyphens
            /\ Len(s) >= 3
            /\ s[2] \in Whitespace
            /\ s[3] = "\n"
    THEN unhyphenate_sub(Drop(s, 3))
    ELSE IF /\ Head(s) \in Hyphens
            /\ Len(s) >= 2
            /\ s[2] = "\n"
    THEN unhyphenate_sub(Drop(s, 2))
    ELSE <<Head(s)>> \o unhyphenate_sub(Tail(s))

\* s.split(sep) for a one-character sep: the pieces, empty ones kept
RECURSIVE split_on(_, _)
split_on(s, sep) ==
    LET at == {i \in 1..Len(s) : s[i] = sep}
    IN  IF at = {} THEN <<s>>
        ELSE <<SubSeq(s, 1, Min(at) - 1)>> \o split_on(Drop(s, Min(at)), sep)

\* s.lstrip(), s.rstrip(), s.strip()
RECURSIVE lstrip(_)
lstrip(s) ==
    IF s # <<>> /\ Head(s) \in Whitespace THEN lstrip(Tail(s)) ELSE s

RECURSIVE rstrip(_)
rstrip(s) ==
    IF s # <<>> /\ s[Len(s)] \in Whitespace
    THEN rstrip(SubSeq(s, 1, Len(s) - 1)) ELSE s

\* a strip that forgets the right end
strip_left(s) == lstrip(s)

strip(s) == rstrip(lstrip(s))

\* s.split(): the maximal runs of characters that are not whitespace
RECURSIVE Word(_)
Word(s) ==
    IF s = <<>> \/ Head(s) \in Whitespace THEN <<>>
    ELSE <<Head(s)>> \o Word(Tail(s))

RECURSIVE split(_)
split(s) ==
    LET t == lstrip(s)
    IN  IF t = <<>> THEN <<>>
        ELSE <<Word(t)>> \o split(Drop(t, Len(Word(t))))

\* re.sub(" +", " ", s)
RECURSIVE SkipSpaces(_)
SkipSpaces(s) ==
    IF s # <<>> /\ Head(s) = " " THEN SkipSpaces(Tail(s)) ELSE s

RECURSIVE fix_spacing(_)
fix_spacing(s) ==
    IF s = <<>> THEN <<>>
    ELSE IF Head(s) = " " THEN <<" ">> \o fix_spacing(SkipSpaces(s))
    ELSE <<Head(s)>> \o fix_spacing(Tail(s))

\* unicodedata.normalize: canonical decomposition, canonical ordering and
\* canonical composition (Unicode Standard Annex 15)
Decompose(s) ==
    Cat([i \in 1..Len(s) |->
           IF s[i] \in DOMAIN Decomposition THEN Decomposition[s[i]]
           ELSE <<s[i]>>])

RECURSIVE Reorder(_)
Reorder(s) ==
    LET bad == {i \in 1..(Len(s) - 1) :
                  /\ combining(s[i + 1]) > 0
                  /\ combining(s[i]) > combining(s[i + 1])}
    IN  IF bad = {} THEN s
        ELSE Reorder([s EXCEPT ![Min(bad)] = s[Min(bad) + 1],
                               ![Min(bad) + 1] = s[Min(bad)]])

NFD(s) == Reorder(Decompose(s))

\* out: the composed prefix; sp: the place in out of the last starter (0: none
\* yet); last: the class of the last character kept
RECURSIVE Compose(_, _, _, _)
Compose(out, sp, last, rest) ==
    IF rest = <<>> THEN out
    ELSE LET ch  == Head(rest)
             cls == combining(ch)
         IN  IF /\ sp > 0
                /\ Composable(out[sp], ch)
                /\ (last < cls \/ last = 0)
             THEN Compose([out EXCEPT ![sp] = Composite(out[sp], ch)],
                          sp, last, Tail(rest))
             ELSE Compose(Append(out, ch),
                          IF cls = 0 THEN Len(out) + 1 ELSE sp,
                          cls, Tail(rest))

NFC(s) == Compose(<<>>, 0, 0, NFD(s))

(***************************************************************************)
(* The program.  text and the ten options are the parameters of            *)
(* preprocess, which are its local variables; args is what the caller      *)
(* passed, ret the value the last call returned and calls the number of    *)
(* calls made.  The options are                                            *)
(* booleans, but line 60 rebinds punctuation to a string: the value of     *)
(* punctuation is the pair of its Python type and its value.               *)
(***************************************************************************)
VARIABLES pc, text, lower, normalize, punctuation, numbers, unhyphenate,
          remove_lines, remove_spaces, entities, diacriticals, fill,
          args, ret, calls, combining_character_table, tableBuilds

options == <<lower, normalize, punctuation, numbers, unhyphenate,
             remove_lines, remove_spaces, entities, diacriticals, fill>>

table == <<combining_character_table, tableBuilds>>

caller == <<args, ret, calls>>

vars == <<pc, text, options, caller, table>>

PyBool(b) == <<"bool", b>>
PyStr(s)  == <<"str", s>>

\* the truth value Python gives a bool or a str
Truthy(v) == IF v[1] = "bool" THEN v[2] ELSE v[2] # <<>>

Flags ==
    [lower : BOOLEAN, normalize : BOOLEAN, punctuation : BOOLEAN,
     numbers : BOOLEAN, unhyphenate : BOOLEAN, remove_lines : BOOLEAN,
     remove_spaces : BOOLEAN, entities : BOOLEAN, diacriticals : BOOLEAN]

\* the defaults of lines 34-43
Defaults ==
    [lower |-> TRUE, normalize |-> TRUE, punctuation |-> FALSE,
     numbers |-> FALSE, unhyphenate |-> FALSE, remove_lines |-> FALSE,
     remove_spaces |-> FALSE, entities |-> FALSE, diacriticals |-> TRUE]

DefaultFill == <<" ">>

\* preprocess(t, **f, fill=fl) is entered: the parameters are bound
Enter(t, f, fl) ==
    /\ pc' = "entities"
    /\ text' = t
    /\ lower' = f.lower
    /\ normalize' = f.normalize
    /\ punctuation' = PyBool(f.punctuation)
    /\ numbers' = f.numbers
    /\ unhyphenate' = f.unhyphenate
    /\ remove_lines' = f.remove_lines
    /\ remove_spaces' = f.remove_spaces
    /\ entities' = f.entities
    /\ diacriticals' = f.diacriticals
    /\ fill' = fl
    /\ args' = [text |-> t, flags |-> f, fill |-> fl]

\* The first call of preprocess, on a text of Texts with the flags of a
\* record of Fs and a fill of Fills.
InitOver(Texts, Fs, Fills) ==
    /\ pc = "entities"
    /\ text \in Texts
    /\ \E f \in Fs :
         /\ lower = f.lower
         /\ normalize = f.normalize
         /\ punctuation = PyBool(f.punctuation)
         /\ numbers = f.numbers
         /\ unhyphenate = f.unhyphenate
         /\ remove_lines = f.remove_lines
         /\ remove_spaces = f.remove_spaces
         /\ entities = f.entities
         /\ diacriticals = f.diacriticals
         /\ fill \in Fills
         /\ args = [text |-> text, flags |-> f, fill |-> fill]
    /\ ret = <<>>
    /\ calls = 1
    /\ combining_character_table = {}
    /\ tableBuilds = 0

\* line 46 with the flag read the wrong way round
EntitiesInverted ==
    /\ pc = "entities"
    /\ text' = IF entities THEN unescape(text) ELSE text
    /\ pc' = "unhyphenate"
    /\ UNCHANGED <<options, caller, table>>

\* lines 46-47
Entities ==
    /\ pc = "entities"
    /\ text' = IF ~entities THEN unescape(text) ELSE text
    /\ pc' = "unhyphenate"
    /\ UNCHANGED <<options, caller, table>>

\* lines 49-50
Unhyphenate ==
    /\ pc = "unhyphenate"
    /\ text' = IF unhyphenate THEN unhyphenate_sub(text) ELSE text
    /\ pc' = "lower"
    /\ UNCHANGED <<options, caller, table>>

\* lines 52-53
Lower ==
    /\ pc = "lower"
    /\ text' = IF lower THEN str_lower(text) ELSE text
    /\ pc' = "normalize"
    /\ UNCHANGED <<options, caller, table>>

\* lines 55-56
Normalize ==
    /\ pc = "normalize"
    /\ text' = IF normalize THEN JVReplacer_replace(text) ELSE text
    /\ pc' = "punctuation"
    /\ UNCHANGED <<options, caller, table>>

\* lines 58-64: misc is the misc string followed by the punctuation string
Punctuation ==
    /\ pc = "punctuation"
    /\ IF ~Truthy(punctuation)
       THEN /\ punctuation' = PyStr(PunctuationStr)
            /\ text' = translate(text, Range(MiscStr \o PunctuationStr), fill)
       ELSE UNCHANGED <<punctuation, text>>
    /\ pc' = "numbers"
    /\ UNCHANGED <<lower, normalize, numbers, unhyphenate, remove_lines,
                   remove_spaces, entities, diacriticals, fill, caller,
                   table>>

\* line 66 with the flag read the wrong way round
NumbersInverted ==
    /\ pc = "numbers"
    /\ text' = IF numbers THEN translate(text, Range(Digits), fill) ELSE text
    /\ pc' = "remove_lines"
    /\ UNCHANGED <<options, caller, table>>

\* lines 66-69
Numbers ==
    /\ pc = "numbers"
    /\ text' = IF ~numbers THEN translate(text, Range(Digits), fill) ELSE text
    /\ pc' = "remove_lines"
    /\ UNCHANGED <<options, caller, table>>

\* lines 71-72 joining with fill, which it first sets to the space
RemoveLinesSetsFill ==
    /\ pc = "remove_lines"
    /\ IF remove_lines
       THEN /\ fill' = <<" ">>
            /\ text' = Join(<<" ">>, split_on(text, "\n"))
       ELSE UNCHANGED <<fill, text>>
    /\ pc' = "remove_spaces"
    /\ UNCHANGED <<lower, normalize, punctuation, numbers, unhyphenate,
                   remove_lines, remove_spaces, entities, diacriticals, caller,
                   table>>

\* lines 71-72
RemoveLines ==
    /\ pc = "remove_lines"
    /\ text' = IF remove_lines THEN Join(<<" ">>, split_on(text, "\n"))
               ELSE text
    /\ pc' = "remove_spaces"
    /\ UNCHANGED <<options, caller, table>>

\* lines 74-75
RemoveSpaces ==
    /\ pc = "remove_spaces"
    /\ text' = IF remove_spaces THEN Join(fill, split(text)) ELSE text
    /\ pc' = "diacriticals"
    /\ UNCHANGED <<options, caller, table>>

\* lines 19-29, remove_diacriticals: the table is built from every code point
\* on each call, and maps each code point of non-zero class to None
BuildTable == {c \in CodePoints : combining(c) # 0}

\* the translation without the decomposition of line 25
remove_diacriticals_composed(s, t) == translate(s, t, <<>>)

remove_diacriticals(s, t) == translate(NFD(s), t, <<>>)

\* lines 77-79
Diacriticals ==
    /\ pc = "diacriticals"
    /\ IF ~diacriticals
       THEN /\ combining_character_table' = BuildTable
            /\ tableBuilds' = tableBuilds + 1
            /\ text' = remove_diacriticals(text, BuildTable)
       ELSE UNCHANGED <<table, text>>
    /\ pc' = "spacing"
    /\ UNCHANGED <<options, caller>>

\* line 82
FixSpacing ==
    /\ pc = "spacing"
    /\ text' = fix_spacing(text)
    /\ pc' = "nfc"
    /\ UNCHANGED <<options, caller, table>>

\* line 84
Recompose ==
    /\ pc = "nfc"
    /\ text' = NFC(text)
    /\ pc' = "return"
    /\ UNCHANGED <<options, caller, table>>

\* line 86
Return ==
    /\ pc = "return"
    /\ ret' = strip(text)
    /\ pc' = "done"
    /\ UNCHANGED <<text, options, args, calls, table>>

Step ==
    \/ Entities
    \/ Unhyphenate
    \/ Lower
    \/ Normalize
    \/ Punctuation
    \/ Numbers
    \/ RemoveLines
    \/ RemoveSpaces
    \/ Diacriticals
    \/ FixSpacing
    \/ Recompose
    \/ Return

\* the caller passes the value returned to preprocess again, with the same
\* options: preprocess(preprocess(text, ...), ...)
Recall ==
    /\ pc = "done"
    /\ calls < MaxCalls
    /\ Enter(ret, args.flags, args.fill)
    /\ calls' = calls + 1
    /\ UNCHANGED <<ret, table>>

Next == Step \/ Recall

(***************************************************************************)
(* The texts and the specifications.                                       *)
(***************************************************************************)
Hello == <<"H","e","l","l","o",","," ","W","o","r","l","d","!"," ","1","2","3">>
IamVenio == <<"I","a","m"," ","v","e","n","i","o">>
FooAmpBar == <<"f","o","o","&","a","m","p",";","b","a","r">>
MultiLine == <<"m","u","l","t","i","-","\n","l","i","n","e">>

\* Every flag combination, the default fill, and a second call on the value
\* returned: letters the replacer rewrites, a composite of one, a mark, the
\* Greek question mark, punctuation, a digit and a space.
Alphabet == {"a", "J", "v", "U+01F0", "U+030C", "U+037E", ",", "1", " "}

Texts == SeqsUpTo(Alphabet, MaxLen) \cup {Hello, IamVenio}

Init == InitOver(Texts, Flags, {DefaultFill})

Spec == Init /\ [][Next]_vars

\* Every flag combination and several fills, one of them a digit, one of
\* them two spaces and one of them empty: whitespace, a digit, punctuation.
FillAlphabet == {" ", "\n", "1", ","}

Fills == {<<" ">>, <<" ", " ">>, <<"0">>, <<"_">>, <<>>}

InitFill == InitOver(SeqsUpTo(FillAlphabet, MaxLenFill), Flags, Fills)

SpecFill == InitFill /\ [][Step]_vars

\* Every flag combination, a fill that is a mark: a letter, its composite
\* with the caron, the caron, the enclosing circle and a digit.
MarkAlphabet == {"a", "U+01CE", "U+030C", "U+20DD", "1"}

InitMarks ==
    InitOver(SeqsUpTo(MarkAlphabet, MaxLenMarks), Flags,
             {DefaultFill, <<"U+030C">>})

SpecMarks == InitMarks /\ [][Step]_vars

\* Every flag combination: texts made of words, references and their parts.
EntityTokens ==
    {<<"f","o","o">>, <<"b","a","r">>, <<"&","a","m","p",";">>, <<"&">>,
     <<"a","m","p",";">>}

EntityTexts == {Cat(ts) : ts \in SeqsUpTo(EntityTokens, MaxTokens)}

InitEntities == InitOver(EntityTexts, Flags, {DefaultFill})

SpecEntities == InitEntities /\ [][Step]_vars

\* Every flag combination: a hyphen, two whitespace characters and a letter,
\* and one text for each of the other two hyphen characters.
HyphenAlphabet == {"-", " ", "\n", "a"}

HyphenTexts ==
    SeqsUpTo(HyphenAlphabet, MaxLenHyphen) \cup
    {MultiLine, <<"a", "U+00BB", "\n", "a">>,
     <<"a", "U+2014", "\t", "\n", "a">>, <<"a", "U+2014", "\t", "\t", "\n", "a">>}

InitHyphen == InitOver(HyphenTexts, Flags, {DefaultFill})

SpecHyphen == InitHyphen /\ [][Step]_vars

(***************************************************************************)
(* Properties.                                                             *)
(***************************************************************************)
Returned == pc = "done"

\* the text the unhyphenation step receives: the entity step's result
AfterEntities ==
    IF args.flags.entities THEN args.text ELSE unescape(args.text)

HasAdjacentSpaces(s) ==
    \E i \in 1..(Len(s) - 1) : s[i] = " " /\ s[i + 1] = " "

\* C1: preprocess is idempotent under the default fill: a second call on the
\* value returned, with the same options, returns that value again.
C1_Idempotent ==
    (Returned /\ calls >= 2 /\ args.fill = DefaultFill) => ret = args.text

\* C2: with numbers=false the value returned holds no ASCII digit, whatever
\* the other options, fill among them, are.
C2_NoDigitAnyFill ==
    (Returned /\ ~args.flags.numbers) => Range(ret) \cap Range(Digits) = {}

\* C2, amended: with numbers=false and a fill that holds no ASCII digit, the
\* value returned holds no ASCII digit, whatever the other options are.
C2_NoDigit ==
    (/\ Returned
     /\ ~args.flags.numbers
     /\ Range(args.fill) \cap Range(Digits) = {})
    => Range(ret) \cap Range(Digits) = {}

C2_Witness ==
    /\ Returned
    /\ ~args.flags.numbers
    /\ "1" \in Range(args.text)
    /\ args.fill = <<"_">>
    /\ "_" \in Range(ret)

\* C3: with diacriticals=false the value returned holds no Unicode combining
\* mark.
C3_NoCombiningMark ==
    (Returned /\ ~args.flags.diacriticals)
    => Range(ret) \cap CombiningMarks = {}

\* C3, amended: with diacriticals=false the value returned holds no code
\* point of non-zero canonical combining class, on its own or in the
\* canonical decomposition of a code point; a combining mark of class 0
\* (U+20DD) is kept.
C3_NoNonZeroClass ==
    (Returned /\ ~args.flags.diacriticals)
    => \A c \in Range(Decompose(ret)) : combining(c) = 0

C3_Witness ==
    /\ Returned
    /\ ~args.flags.diacriticals
    /\ args.text = <<"U+01CE", "U+20DD", "U+030C">>
    /\ ret = <<"a", "U+20DD">>

\* C4: with punctuation=false and the default fill the value returned holds
\* no character of the punctuation and misc strings, and "Hello, World! 123"
\* returns "hello world" under the defaults.
C4_NoPunctuation ==
    /\ (Returned /\ ~args.flags.punctuation /\ args.fill = DefaultFill)
       => Range(ret) \cap (Range(MiscStr) \cup Range(PunctuationStr)) = {}
    /\ (Returned /\ args.text = Hello /\ args.flags = Defaults
        /\ args.fill = DefaultFill)
       => ret = <<"h","e","l","l","o"," ","w","o","r","l","d">>

\* C5: with entities=false and every other option at its default,
\* "foo&amp;bar" returns "foo&bar".
C5_AmpersandReturned ==
    (Returned /\ args.text = FooAmpBar /\ args.flags = Defaults
     /\ args.fill = DefaultFill)
    => ret = <<"f","o","o","&","b","a","r">>

\* C5, amended: with entities=false the reference in "foo&amp;bar" is decoded
\* by the first step, to "foo&bar"; with every other option at its default
\* the punctuation step then replaces the "&" by fill and "foo bar" is
\* returned; "foo&bar" is returned when punctuation=true as well.
C5_AmpersandDecoded ==
    /\ (pc = "unhyphenate" /\ args.text = FooAmpBar /\ ~args.flags.entities)
       => text = <<"f","o","o","&","b","a","r">>
    /\ (Returned /\ args.text = FooAmpBar /\ args.flags = Defaults
        /\ args.fill = DefaultFill)
       => ret = <<"f","o","o"," ","b","a","r">>
    /\ (Returned /\ args.text = FooAmpBar
        /\ args.flags = [Defaults EXCEPT !.punctuation = TRUE]
        /\ args.fill = DefaultFill)
       => ret = <<"f","o","o","&","b","a","r">>

C5_Witness ==
    /\ Returned
    /\ args.text = FooAmpBar
    /\ args.flags = Defaults
    /\ ret = <<"f","o","o"," ","b","a","r">>

\* The places of s the unhyphenation step deletes, when it deletes a hyphen
\* character, the at most n whitespace characters after it and the newline
\* that follows them, wherever they occur: at each hyphen, the longest such
\* stretch.
HyphenBreak(s, i, n) ==
    LET ends == {j \in (i + 1)..Len(s) :
                   /\ s[j] = "\n"
                   /\ j - i - 1 <= n
                   /\ \A k \in (i + 1)..(j - 1) : s[k] \in Whitespace}
    IN  IF s[i] \in {"-", "U+00BB", "U+2014"} /\ ends # {}
        THEN i..Max(ends) ELSE {}

Deleted(s, n) == UNION {HyphenBreak(s, i, n) : i \in 1..Len(s)}

\* s without the places of D
RECURSIVE Without(_, _, _)
Without(s, D, i) ==
    IF i > Len(s) THEN <<>>
    ELSE (IF i \in D THEN <<>> ELSE <<s[i]>>) \o Without(s, D, i + 1)

\* C6: with unhyphenate=true every '-', '»' or '—' followed by any amount of
\* whitespace and then a newline is deleted with them, and nothing else is;
\* "multi-\nline" becomes "multiline".
C6_AnyWhitespace ==
    /\ (pc = "lower" /\ args.flags.unhyphenate)
       => text = Without(AfterEntities,
                         Deleted(AfterEntities, Len(AfterEntities)), 1)
    /\ (Returned /\ args.text = MultiLine
        /\ args.flags = [Defaults EXCEPT !.unhyphenate = TRUE])
       => ret = <<"m","u","l","t","i","l","i","n","e">>

\* C6, amended: with unhyphenate=true every '-', '»' or '—' followed by at
\* most one whitespace character and then a newline is deleted with them,
\* and nothing else is; "multi-\nline" becomes "multiline".
C6_OneWhitespace ==
    /\ (pc = "lower" /\ args.flags.unhyphenate)
       => text = Without(AfterEntities, Deleted(AfterEntities, 1), 1)
    /\ (Returned /\ args.text = MultiLine
        /\ args.flags = [Defaults EXCEPT !.unhyphenate = TRUE])
       => ret = <<"m","u","l","t","i","l","i","n","e">>

C6_Witness ==
    /\ pc = "lower"
    /\ args.flags.unhyphenate
    /\ args.text = <<"a", "-", " ", "\n">>
    /\ text = <<"a">>

\* C7: with lower=true, normalize=true and the default fill the value
\* returned holds no j, v, J or V, whatever the other options are, and
\* "Iam venio" returns "iam uenio".
C7_NoJV ==
    /\ (Returned /\ args.flags.lower /\ args.flags.normalize
        /\ args.fill = DefaultFill)
       => Range(ret) \cap {"j", "v", "J", "V"} = {}
    /\ (Returned /\ args.text = IamVenio /\ args.flags = Defaults
        /\ args.fill = DefaultFill)
       => ret = <<"i","a","m"," ","u","e","n","i","o">>

\* the options other than punctuation hold what the caller passed
OthersKept ==
    /\ lower = args.flags.lower
    /\ normalize = args.flags.normalize
    /\ numbers = args.flags.numbers
    /\ unhyphenate = args.flags.unhyphenate
    /\ remove_lines = args.flags.remove_lines
    /\ remove_spaces = args.flags.remove_spaces
    /\ entities = args.flags.entities
    /\ diacriticals = args.flags.diacriticals
    /\ fill = args.fill

\* C8: at every point of a call every option holds the value the caller
\* passed.
C8_OptionsKept ==
    /\ OthersKept
    /\ punctuation[1] = "bool"
    /\ punctuation[2] = args.flags.punctuation

\* C8, amended: at every point of a call every option but punctuation holds
\* the value the caller passed; punctuation holds it up to the punctuation
\* step, which, when punctuation is false, rebinds it to the punctuation
\* string, and it holds that string from then on.
C8_OptionsKeptButPunctuation ==
    /\ OthersKept
    /\ punctuation =
         IF /\ ~args.flags.punctuation
            /\ pc \notin {"entities", "unhyphenate", "lower", "normalize",
                          "punctuation"}
         THEN PyStr(PunctuationStr)
         ELSE PyBool(args.flags.punctuation)

C8_Witness ==
    /\ Returned
    /\ ~args.flags.punctuation
    /\ args.flags.remove_lines
    /\ args.fill = <<"_">>
    /\ punctuation = PyStr(PunctuationStr)
    /\ OthersKept

\* C9: for every text, option combination and fill, the value returned has no
\* two adjacent ASCII spaces and no leading or trailing whitespace character.
C9_Spacing ==
    Returned =>
      /\ ~HasAdjacentSpaces(ret)
      /\ ret # <<>> => (ret[1] \notin Whitespace /\ ret[Len(ret)] \notin Whitespace)

C9_Witness ==
    /\ Returned
    /\ args.fill = <<" ", " ">>
    /\ args.text = <<",", "1", ",">>
    /\ args.flags.punctuation
    /\ ~args.flags.numbers
    /\ ~args.flags.remove_spaces
    /\ ret = <<",", " ", ",">>

\* C10: over any sequence of calls the combining-character table is built at
\* most once.
C10_TableBuiltOnce == tableBuilds <= 1

====
